---- MODULE Spec2Model ----
(***************************************************************************)
(* A model of crt (cmd/crt.go, repository, result): the bulk and the       *)
(* single-domain lookup flows, the per-item retry loop, the result         *)
(* aggregator and the interrupt handler.                                   *)
(*                                                                         *)
(* Threads: "main" (Execute / performBulkLookup), "handler" (the goroutine *)
(* of setupSignalHandling) and one task goroutine per domain of the input  *)
(* list.  In single-domain mode the one lookup is run by main itself; it   *)
(* is modelled by task 1, whose return resumes main.                       *)
(*                                                                         *)
(* Granularity: every read of the shutdown flag, every Query Service call  *)
(* (issue and return are two steps), every lock acquisition that can block *)
(* and every write to a buffer or to the output file is a step of its own. *)
(* shutdownMux and processedMutex guard a single load or store and are     *)
(* folded into the step that takes them.  A rendered result set is one     *)
(* item, named by its target; file operations and json.Unmarshal of the    *)
(* renderer's own output are taken to succeed; logging is left out.        *)
(***************************************************************************)
EXTENDS Integers, Sequences, FiniteSets, TLC

\* Bounds of the model.
MaxTargets == 2
MaxRetryCount == 1
MaxConcurrent == 2

\* repository: maxRetries, initialDelay and maxDelay (seconds)
maxRetries == 3
initialDelay == 2
maxDelay == 10
\* os.Exit(130) in the interrupt handler
ExitInterrupt == 130

Formats == {"json", "jsonl", "csv", "table"}
Threads == {"main", "handler"}
Targets == 1..MaxTargets

VARIABLES
    mode,           \* "bulk" (-i given) or "single"
    format,         \* the output format selected by -json / -jsonl / -csv
    filename,       \* "" (standard output) or "out"
    concurrent,     \* *concurrent
    retryCount,     \* *retryCount
    totalDomains,   \* len(domains)
    warned,         \* the warning of line 489 was printed
    tpc,            \* position of main and of the handler goroutine
    idx,            \* next domain of the admission loop
    wg,             \* sync.WaitGroup counter
    semaphore,      \* number of elements in the semaphore channel
    errorChannel,   \* queued errors (the target each belongs to)
    chanClosed,     \* close(errorChannel) has run
    errCount,       \* errCount of performBulkLookup
    summary,        \* the end-of-run summary line printed
    retries,        \* failed probes of repository.New
    delay,          \* delay of repository.New, in seconds
    slept,          \* seconds New slept after its latest failed probe (0: none)
    repo,           \* the connection handle: "none", "live", "closed"
    sigQueued,      \* signals buffered in the channel c
    shuttingDown,   \* the shutdown flag
    resultsMux,     \* holder of resultsMux (0: free)
    fileMutex,      \* holder of fileMutex ("none": free)
    pc,             \* position of each task
    attempt,        \* attempt of the retry loop of each task
    calls,          \* Query Service calls issued by the running lookup of each target
    outcome,        \* what the lookup of each target returned
    dropped,        \* the render of the target's result failed
    jsonResults, jsonlResults, csvResults, tableResults,
    file,           \* items in the output file
    stdout,         \* items printed to standard output
    combinedJSON,   \* the array each running outputResults marshalled
    flushDone,      \* outputResults calls that returned
    processedCount, \* processedCount of performBulkLookup
    exitCode,       \* exit status of the process, -1 while it runs
    \* History of the run, read by no action:
    lastWrite,      \* the array os.WriteFile last wrote (line 433)
    lateStarts,     \* targets whose goroutine was started with the flag set
    \* result.Certificates.JSON, checked on its own (RenderSpec):
    certs,          \* the result set r
    rendered        \* the arrays JSON() has returned

config == <<mode, format, filename, concurrent, retryCount, totalDomains, warned>>
mainVars == <<idx, wg, semaphore, errorChannel, chanClosed, errCount, summary>>
connVars == <<retries, delay, slept, repo>>
taskVars == <<pc, attempt, calls, outcome, dropped, processedCount>>
bufVars == <<jsonResults, jsonlResults, csvResults, tableResults>>
sinkVars == <<file, stdout, combinedJSON, flushDone>>
lockVars == <<resultsMux, fileMutex>>
histVars == <<lastWrite, lateStarts>>
renderVars == <<certs, rendered>>
vars == <<config, tpc, mainVars, connVars, sigQueued, shuttingDown, lockVars,
          taskVars, bufVars, sinkVars, exitCode, histVars, renderVars>>

jsonOut == format = "json"
jsonlOut == format = "jsonl"
csvOut == format = "csv"

\* The buffer that processResults appends to for the selected format.
Buffer ==
    CASE jsonOut -> jsonResults
      [] jsonlOut -> jsonlResults
      [] csvOut -> csvResults
      [] OTHER -> tableResults

\* The process has not exited: exitCode is negative until an exit sets it.
Alive == exitCode < 0

\* Mutant: the flag is read as it was when the run began.
isShuttingDownStale == FALSE

\* isShuttingDown(): the flag, read under shutdownMux.
isShuttingDown == shuttingDown

\* Nothing has run yet: the package variables and the locals of
\* performBulkLookup at their initial values.
NothingRun ==
    /\ warned = FALSE
    /\ tpc = [main |-> "start", handler |-> "idle"]
    /\ idx = 1
    /\ wg = 0
    /\ semaphore = 0
    /\ errorChannel = <<>>
    /\ chanClosed = FALSE
    /\ errCount = 0
    /\ summary = "none"
    /\ retries = 0
    /\ delay = initialDelay
    /\ slept = 0
    /\ repo = "none"
    /\ sigQueued = 0
    /\ shuttingDown = FALSE
    /\ resultsMux = 0
    /\ fileMutex = "none"
    /\ pc = [t \in Targets |-> "idle"]
    /\ attempt = [t \in Targets |-> 0]
    /\ calls = [t \in Targets |-> 0]
    /\ outcome = [t \in Targets |-> "none"]
    /\ dropped = [t \in Targets |-> FALSE]
    /\ jsonResults = <<>>
    /\ jsonlResults = <<>>
    /\ csvResults = <<>>
    /\ tableResults = <<>>
    /\ file = <<>>
    /\ stdout = <<>>
    /\ combinedJSON = [p \in Threads |-> <<>>]
    /\ flushDone = 0
    /\ processedCount = 0
    /\ exitCode = -1
    /\ lastWrite = <<>>
    /\ lateStarts = {}

Init ==
    /\ mode \in {"bulk", "single"}
    /\ format \in Formats
    /\ filename \in {"", "out"}
    /\ concurrent \in (-1)..MaxConcurrent
    /\ retryCount \in 0..MaxRetryCount
    /\ totalDomains \in (IF mode = "bulk" THEN 0..MaxTargets ELSE {1})
    /\ NothingRun
    /\ certs = <<>>
    /\ rendered = <<>>


(***************************************************************************)
(* Execute and performBulkLookup: start-up and connection                  *)
(***************************************************************************)

\* Mutant: the concurrency value is used as given.
NotCoerced(c) == c

\* Lines 488-491: a concurrency value below 1 is replaced by 1.
Coerced(c) == IF c < 1 THEN 1 ELSE c

\* Execute 139-155 and performBulkLookup 475-491: an empty input list is a
\* usage error; a concurrency value below 1 is coerced to 1, with a warning.
MainStart ==
    /\ Alive
    /\ tpc["main"] = "start"
    /\ IF mode = "bulk" /\ totalDomains = 0
       THEN /\ exitCode' = 1
            /\ UNCHANGED <<tpc, concurrent, warned, file>>
       ELSE /\ tpc' = [tpc EXCEPT !["main"] = "acquire"]
            /\ concurrent' = IF mode = "bulk" THEN Coerced(concurrent) ELSE concurrent
            /\ warned' = (mode = "bulk" /\ concurrent < 1)
            /\ file' = IF mode = "bulk" /\ ~jsonlOut THEN <<>> ELSE file
            /\ UNCHANGED exitCode
    /\ UNCHANGED <<renderVars, histVars, mode, format, filename, retryCount, totalDomains, mainVars,
                   connVars, sigQueued, shuttingDown, lockVars, taskVars, bufVars,
                   stdout, combinedJSON, flushDone>>

\* repository.New: a probe passes; the handle is live.
ProbePass ==
    /\ Alive
    /\ tpc["main"] = "acquire"
    /\ repo' = "live"
    /\ IF mode = "bulk"
       THEN /\ tpc' = [tpc EXCEPT !["main"] = "admit"]
            /\ UNCHANGED pc
       ELSE /\ tpc' = [tpc EXCEPT !["main"] = "lookup"]
            /\ pc' = [pc EXCEPT ![1] = "entry"]
    /\ slept' = 0
    /\ UNCHANGED <<renderVars, histVars, config, mainVars, retries, delay, sigQueued,
                   shuttingDown, lockVars,
                   attempt, calls, outcome, dropped, processedCount, bufVars,
                   sinkVars, exitCode>>

\* Mutant: the probe loop runs once more.
ProbesExhaustedLate == retries + 1 > maxRetries

\* The loop condition of line 54 fails after this failed probe.
ProbesExhausted == retries + 1 >= maxRetries

\* Mutant: the delay is not doubled.
NextDelaySame(d) == d

\* min of lines 82-88.
min(a, b) == IF a < b THEN a ELSE b

\* Line 73: the delay is doubled, up to maxDelay.
NextDelay(d) == min(d * 2, maxDelay)

\* Line 68: rand.Int63n(delay / 2), a value in [0, delay/2).
Jitter(d) == 0..((d \div 2) - 1)

\* repository.New: a probe fails.  Before the last probe the caller sleeps
\* delay + jitter and the delay is doubled (66-74); after maxRetries failed
\* probes the handle is closed and the caller ends the process (log.Fatalf).
ProbeFail ==
    /\ Alive
    /\ tpc["main"] = "acquire"
    /\ retries' = retries + 1
    /\ IF ProbesExhausted
       THEN /\ repo' = "closed"
            /\ exitCode' = 1
            /\ slept' = 0
            /\ UNCHANGED delay
       ELSE /\ \E jitter \in Jitter(delay) : slept' = delay + jitter
            /\ delay' = NextDelay(delay)
            /\ UNCHANGED <<repo, exitCode>>
    /\ UNCHANGED <<renderVars, histVars, config, tpc, mainVars, sigQueued, shuttingDown, lockVars,
                   taskVars, bufVars, sinkVars>>

(***************************************************************************)
(* performBulkLookup: the admission loop                                   *)
(***************************************************************************)

\* Mutant: the admission loop does not look at the flag.
AdmitNeverStops == FALSE

\* isShuttingDown() of line 517, as the admission loop sees it.
AdmitStops == isShuttingDown

\* Lines 515-521: the loop ends after the last domain or when the flag is set;
\* otherwise wg.Add(1).
Admit ==
    /\ Alive
    /\ tpc["main"] = "admit"
    /\ IF idx > totalDomains \/ AdmitStops
       THEN /\ tpc' = [tpc EXCEPT !["main"] = "wait"]
            /\ UNCHANGED wg
       ELSE /\ tpc' = [tpc EXCEPT !["main"] = "sem"]
            /\ wg' = wg + 1
    /\ UNCHANGED <<renderVars, histVars, config, idx, semaphore, errorChannel, chanClosed, errCount,
                   summary, connVars, sigQueued, shuttingDown, lockVars, taskVars,
                   bufVars, sinkVars, exitCode>>

\* Mutant: a send on the semaphore channel never blocks.
SemaphoreFreeAlways == TRUE

\* Mutant: the channel is made one element too large.
SemaphoreFreeOffByOne == semaphore <= concurrent

\* A send on the semaphore channel (capacity *concurrent) can proceed.
SemaphoreFree == semaphore < concurrent

\* Lines 522-523: acquire a slot, start the goroutine of domains[idx].
SemAcquire ==
    /\ Alive
    /\ tpc["main"] = "sem"
    /\ SemaphoreFree
    /\ semaphore' = semaphore + 1
    /\ pc' = [pc EXCEPT ![idx] = "skipCheck"]
    /\ idx' = idx + 1
    /\ tpc' = [tpc EXCEPT !["main"] = "admit"]
    /\ lateStarts' = IF shuttingDown THEN lateStarts \cup {idx} ELSE lateStarts
    /\ UNCHANGED <<renderVars, lastWrite, config, wg, errorChannel, chanClosed, errCount, summary,
                   connVars, sigQueued, shuttingDown, lockVars, attempt, calls,
                   outcome, dropped, processedCount, bufVars, sinkVars, exitCode>>

\* Mutant: wg.Wait() returns at once.
WaitDoneAtOnce == TRUE

\* wg.Wait() returns.
WaitDone == wg = 0

\* Lines 557-558: wg.Wait(); close(errorChannel).
Wait ==
    /\ Alive
    /\ tpc["main"] = "wait"
    /\ WaitDone
    /\ chanClosed' = TRUE
    /\ tpc' = [tpc EXCEPT !["main"] = "drain"]
    /\ UNCHANGED <<renderVars, histVars, config, idx, wg, semaphore, errorChannel, errCount, summary,
                   connVars, sigQueued, shuttingDown, lockVars, taskVars, bufVars,
                   sinkVars, exitCode>>

\* Lines 561-569: one iteration of the range over errorChannel, or its end.
Drain ==
    /\ Alive
    /\ tpc["main"] = "drain"
    /\ IF errorChannel # <<>>
       THEN /\ errorChannel' = Tail(errorChannel)
            /\ errCount' = IF isShuttingDown THEN errCount ELSE errCount + 1
            /\ UNCHANGED tpc
       ELSE /\ tpc' = [tpc EXCEPT !["main"] = "outBegin"]
            /\ UNCHANGED <<errorChannel, errCount>>
    /\ UNCHANGED <<renderVars, histVars, config, idx, wg, semaphore, chanClosed, summary, connVars,
                   sigQueued, shuttingDown, lockVars, taskVars, bufVars, sinkVars,
                   exitCode>>

\* Lines 574-581: the summary line, not printed during shutdown.
Summary ==
    /\ Alive
    /\ tpc["main"] = "summary"
    /\ summary' = IF isShuttingDown THEN "none"
                  ELSE IF errCount > 0 THEN "errors" ELSE "success"
    /\ tpc' = [tpc EXCEPT !["main"] = "close"]
    /\ UNCHANGED <<renderVars, histVars, config, idx, wg, semaphore, errorChannel, chanClosed, errCount,
                   connVars, sigQueued, shuttingDown, lockVars, taskVars, bufVars,
                   sinkVars, exitCode>>

\* The deferred repo.Close() of Execute 162 and performBulkLookup 498.
Close ==
    /\ Alive
    /\ tpc["main"] = "close"
    /\ repo' = "closed"
    /\ tpc' = [tpc EXCEPT !["main"] = "return"]
    /\ UNCHANGED <<renderVars, histVars, config, mainVars, retries, delay, slept,
                   sigQueued, shuttingDown, lockVars,
                   taskVars, bufVars, sinkVars, exitCode>>

\* Execute returns: the process ends with status 0.
MainReturn ==
    /\ Alive
    /\ tpc["main"] = "return"
    /\ exitCode' = 0
    /\ UNCHANGED <<renderVars, histVars, config, tpc, mainVars, connVars, sigQueued, shuttingDown,
                   lockVars, taskVars, bufVars, sinkVars>>

\* Execute 164-166 in single-domain mode: log.Fatal(err), status 1.
Fatal ==
    /\ Alive
    /\ tpc["main"] = "fatal"
    /\ exitCode' = 1
    /\ UNCHANGED <<renderVars, histVars, config, tpc, mainVars, connVars, sigQueued, shuttingDown,
                   lockVars, taskVars, bufVars, sinkVars>>


(***************************************************************************)
(* A task: the goroutine of lines 523-554 and lookupDomainWithRepo         *)
(*                                                                         *)
(* Return and Step set pc, tpc, outcome, attempt and calls of every task   *)
(* step; the step itself lists the rest.                                   *)
(***************************************************************************)

\* lookupDomainWithRepo returned an error for these outcomes.
ErrOutcomes == {"Failure", "Cancelled"}

\* lookupDomainWithRepo returns `out` for target t; its locals are gone.  In
\* bulk mode the goroutine goes on at line 535; in single-domain mode main goes
\* on at Execute 164.
Return(t, out) ==
    /\ outcome' = [outcome EXCEPT ![t] = out]
    /\ attempt' = [attempt EXCEPT ![t] = 0]
    /\ calls' = [calls EXCEPT ![t] = 0]
    /\ IF mode = "bulk"
       THEN /\ pc' = [pc EXCEPT ![t] =
                         IF out \in ErrOutcomes THEN "errCheck" ELSE "finish"]
            /\ UNCHANGED tpc
       ELSE /\ pc' = [pc EXCEPT ![t] = "done"]
            /\ tpc' = [tpc EXCEPT !["main"] =
                          IF out \in ErrOutcomes THEN "fatal" ELSE "outBegin"]

\* A step of task t to position l that issues no call and returns nothing.
Step(t, l) ==
    /\ pc' = [pc EXCEPT ![t] = l]
    /\ UNCHANGED <<tpc, outcome, attempt, calls>>

\* Mutant: the slot is not released.
DeferredNoRelease(t) ==
    /\ semaphore' = semaphore
    /\ wg' = wg - 1
    /\ pc' = [pc EXCEPT ![t] = "done"]

\* The deferred calls of lines 524-525: release the slot, then wg.Done().
Deferred(t) ==
    /\ semaphore' = semaphore - 1
    /\ wg' = wg - 1
    /\ pc' = [pc EXCEPT ![t] = "done"]

\* isShuttingDown() of line 528, as a started task sees it.
SkipStops == isShuttingDown

\* Lines 527-533: a task started during shutdown returns at once; otherwise it
\* sleeps *requestDelay and calls lookupDomainWithRepo.
SkipCheck(t) ==
    /\ Alive
    /\ pc[t] = "skipCheck"
    /\ IF SkipStops
       THEN /\ Deferred(t)
            /\ outcome' = [outcome EXCEPT ![t] = "Skipped"]
            /\ UNCHANGED <<tpc, attempt, calls>>
       ELSE /\ Step(t, "entry")
            /\ UNCHANGED <<semaphore, wg>>
    /\ UNCHANGED <<renderVars, histVars, config, idx, errorChannel, chanClosed, errCount,
                   summary, connVars, sigQueued, shuttingDown, lockVars, dropped,
                   processedCount, bufVars, sinkVars, exitCode>>

\* isShuttingDown() of line 206, as lookupDomainWithRepo sees it on entry.
EntryStops == isShuttingDown

\* Lines 205-210: "shutdown in progress", or enter the retry loop, attempt 0.
Entry(t) ==
    /\ Alive
    /\ pc[t] = "entry"
    /\ IF EntryStops
       THEN Return(t, "Cancelled")
       ELSE Step(t, "call")
    /\ UNCHANGED <<renderVars, histVars, config, mainVars, connVars, sigQueued, shuttingDown,
                   lockVars, dropped, processedCount, bufVars, sinkVars, exitCode>>

\* isShuttingDown() of line 212, as the retry loop sees it.
RetryStops == isShuttingDown

\* Lines 211-220: before a retry, "interrupted" if the flag is set; otherwise
\* the task sleeps *requestDelay (the sleep is the time it stays at "call").
RetryCheck(t) ==
    /\ Alive
    /\ pc[t] = "retryCheck"
    /\ IF RetryStops
       THEN Return(t, "Cancelled")
       ELSE Step(t, "call")
    /\ UNCHANGED <<renderVars, histVars, config, mainVars, connVars, sigQueued, shuttingDown,
                   lockVars, dropped, processedCount, bufVars, sinkVars, exitCode>>

\* Lines 225-229: the Query Service call is issued.
CallIssue(t) ==
    /\ Alive
    /\ pc[t] = "call"
    /\ calls' = [calls EXCEPT ![t] = @ + 1]
    /\ pc' = [pc EXCEPT ![t] = "inflight"]
    /\ UNCHANGED <<tpc, outcome, attempt>>
    /\ UNCHANGED <<renderVars, histVars, config, mainVars, connVars, sigQueued, shuttingDown,
                   lockVars, dropped, processedCount, bufVars, sinkVars, exitCode>>

\* Mutant: the loop gives up one attempt early.
AttemptsRemainOneShort(t) == attempt[t] + 1 < retryCount

\* Line 232: another attempt remains.
AttemptsRemain(t) == attempt[t] < retryCount

\* Lines 231-237: the call returns an error; retry or give up.
CallFail(t) ==
    /\ Alive
    /\ pc[t] = "inflight"
    /\ IF AttemptsRemain(t)
       THEN /\ attempt' = [attempt EXCEPT ![t] = @ + 1]
            /\ pc' = [pc EXCEPT ![t] = "retryCheck"]
            /\ UNCHANGED <<tpc, outcome, calls>>
       ELSE Return(t, "Failure")
    /\ UNCHANGED <<renderVars, histVars, config, mainVars, connVars, sigQueued, shuttingDown,
                   lockVars, dropped, processedCount, bufVars, sinkVars, exitCode>>

\* Mutant: a result of zero rows is retried like an error.
OnEmptyRetry(t) ==
    IF attempt[t] < retryCount
    THEN /\ attempt' = [attempt EXCEPT ![t] = @ + 1]
         /\ pc' = [pc EXCEPT ![t] = "retryCheck"]
         /\ UNCHANGED <<tpc, outcome, calls>>
    ELSE Return(t, "Failure")

\* What lookupDomainWithRepo does with a result of zero rows (lines 239-244).
OnEmpty(t) == Return(t, "Empty")

\* Lines 239-244: the call returns zero rows.
CallEmpty(t) ==
    /\ Alive
    /\ pc[t] = "inflight"
    /\ OnEmpty(t)
    /\ UNCHANGED <<renderVars, histVars, config, mainVars, connVars, sigQueued, shuttingDown,
                   lockVars, dropped, processedCount, bufVars, sinkVars, exitCode>>

\* Lines 246-247 and 256-258, 336, 366: the call returns rows and
\* processResults renders them.
CallRows(t) ==
    /\ Alive
    /\ pc[t] = "inflight"
    /\ Step(t, "recLock")
    /\ UNCHANGED <<renderVars, histVars, config, mainVars, connVars, sigQueued, shuttingDown,
                   lockVars, dropped, processedCount, bufVars, sinkVars, exitCode>>

\* Mutant: a failed render makes the lookup return an error.
OnRenderErrorFails(t) == Return(t, "Failure")

\* Lines 259-262, 337-340 and 249: processResults returns without recording
\* and lookupDomainWithRepo returns nil.
OnRenderError(t) == Return(t, "Success")

\* Lines 258-262, 336-340: res.JSON() or res.CSV() fails; processResults
\* returns without recording, and lookupDomainWithRepo returns nil.
RenderFail(t) ==
    /\ Alive
    /\ pc[t] = "inflight"
    /\ format # "table"
    /\ dropped' = [dropped EXCEPT ![t] = TRUE]
    /\ OnRenderError(t)
    /\ UNCHANGED <<renderVars, histVars, config, mainVars, connVars, sigQueued, shuttingDown,
                   lockVars, processedCount, bufVars, sinkVars, exitCode>>

\* resultsMux.Lock() of lines 264, 342, 368.
RecLock(t) ==
    /\ Alive
    /\ pc[t] = "recLock"
    /\ resultsMux = 0
    /\ resultsMux' = t
    /\ Step(t, "recAppend")
    /\ UNCHANGED <<renderVars, histVars, config, mainVars, connVars, sigQueued, shuttingDown,
                   fileMutex, dropped, processedCount, bufVars, sinkVars, exitCode>>

\* Mutant: the append replaces what the buffer held (a lost update).
AppendItemOverwrite(t) ==
    /\ jsonResults' = IF jsonOut THEN <<t>> ELSE jsonResults
    /\ jsonlResults' = IF jsonlOut THEN <<t>> ELSE jsonlResults
    /\ csvResults' = IF csvOut THEN <<t>> ELSE csvResults
    /\ tableResults' = IF ~jsonOut /\ ~jsonlOut /\ ~csvOut
                       THEN <<t>> ELSE tableResults

\* The append of lines 269, 281, 343, 369 for the selected format.
AppendItem(t) ==
    /\ jsonResults' = IF jsonOut THEN Append(jsonResults, t) ELSE jsonResults
    /\ jsonlResults' = IF jsonlOut THEN Append(jsonlResults, t) ELSE jsonlResults
    /\ csvResults' = IF csvOut THEN Append(csvResults, t) ELSE csvResults
    /\ tableResults' = IF ~jsonOut /\ ~jsonlOut /\ ~csvOut
                       THEN Append(tableResults, t) ELSE tableResults

\* Lines 265-290, 343-345, 369-371: append under resultsMux, unlock; without an
\* output file processResults and lookupDomainWithRepo return.
RecAppend(t) ==
    /\ Alive
    /\ pc[t] = "recAppend"
    /\ AppendItem(t)
    /\ resultsMux' = 0
    /\ IF filename # ""
       THEN Step(t, "recFile")
       ELSE Return(t, "Success")
    /\ UNCHANGED <<renderVars, histVars, config, mainVars, connVars, sigQueued, shuttingDown,
                   fileMutex, dropped, processedCount, sinkVars, exitCode>>

\* Mutant: the file is opened with O_TRUNC for every format.
FileAfterRecordTruncated(t) == IF jsonOut THEN <<>> ELSE <<t>>

\* os.OpenFile and the writes of lines 297-332, 352-362, 378-388: O_TRUNC and
\* no write for JSON, O_APPEND and the item for the other formats.
FileAfterRecord(t) == IF jsonOut THEN <<>> ELSE Append(file, t)

\* Lines 293-333, 348-363, 374-389: under fileMutex, open the output file and
\* write the item; return.
RecFile(t) ==
    /\ Alive
    /\ pc[t] = "recFile"
    /\ fileMutex = "none"
    /\ file' = FileAfterRecord(t)
    /\ Return(t, "Success")
    /\ UNCHANGED <<renderVars, histVars, config, mainVars, connVars, sigQueued, shuttingDown,
                   lockVars, dropped, processedCount, bufVars, stdout,
                   combinedJSON, flushDone, exitCode>>

\* Mutant: the error is reported whatever the flag says.
ErrReportedAlways == TRUE

\* Mutant: the test of line 537 is inverted.
ErrReportedInverted == isShuttingDown

\* Line 537: the error is reported unless shutting down.
ErrReported == ~isShuttingDown

\* Mutant: the error is sent twice.
ErrSendTwice(t) == Append(Append(errorChannel, t), t)

\* Line 538: errorChannel <- err.
ErrSend(t) == Append(errorChannel, t)

\* Lines 535-541: the error is sent to errorChannel unless shutting down.
ErrCheck(t) ==
    /\ Alive
    /\ pc[t] = "errCheck"
    /\ errorChannel' = IF ErrReported THEN ErrSend(t)
                       ELSE errorChannel
    /\ Step(t, "finish")
    /\ UNCHANGED <<renderVars, histVars, config, idx, wg, semaphore, chanClosed, errCount,
                   summary, connVars, sigQueued, shuttingDown, lockVars, dropped,
                   processedCount, bufVars, sinkVars, exitCode>>

\* Lines 543-554: the progress counter, under processedMutex; the goroutine
\* ends and its deferred calls run.
Finish(t) ==
    /\ Alive
    /\ pc[t] = "finish"
    /\ processedCount' = processedCount + 1
    /\ Deferred(t)
    /\ UNCHANGED <<tpc, outcome, attempt, calls>>
    /\ UNCHANGED <<renderVars, histVars, config, idx, errorChannel, chanClosed, errCount,
                   summary, connVars, sigQueued, shuttingDown, lockVars, dropped,
                   bufVars, sinkVars, exitCode>>

(***************************************************************************)
(* outputResults, run by main and by the interrupt handler                 *)
(***************************************************************************)

\* Mutant: an empty buffer is printed as an empty document (item 0).
PrintedEvenIfEmpty == IF Buffer = <<>> THEN <<0>> ELSE Buffer

\* What lines 396-413 print: the buffer of the selected format.  With -json
\* and an empty jsonResults the chain falls through to tableResults.
Printed ==
    IF jsonOut /\ Len(jsonResults) > 0 THEN jsonResults
    ELSE IF jsonlOut /\ Len(jsonlResults) > 0 THEN jsonlResults
    ELSE IF csvOut /\ Len(csvResults) > 0 THEN csvResults
    ELSE tableResults

\* Where the caller of outputResults goes on.
AfterFlush(p) ==
    IF p = "handler" THEN "hExit"
    ELSE IF mode = "bulk" THEN "summary" ELSE "close"

\* Lines 395-420: print the buffer to standard output, or marshal jsonResults
\* for the file; the buffers are read without resultsMux.
OutBegin(p) ==
    /\ Alive
    /\ tpc[p] = "outBegin"
    /\ IF filename = ""
       THEN /\ stdout' = stdout \o Printed
            /\ tpc' = [tpc EXCEPT ![p] = "outLog"]
            /\ UNCHANGED combinedJSON
       ELSE IF jsonOut /\ Len(jsonResults) > 0
       THEN /\ combinedJSON' = [combinedJSON EXCEPT ![p] = jsonResults]
            /\ tpc' = [tpc EXCEPT ![p] = "outWrite"]
            /\ UNCHANGED stdout
       ELSE /\ tpc' = [tpc EXCEPT ![p] = "outLog"]
            /\ UNCHANGED <<stdout, combinedJSON>>
    /\ UNCHANGED <<renderVars, histVars, config, mainVars, connVars, sigQueued, shuttingDown, lockVars,
                   taskVars, bufVars, file, flushDone, exitCode>>

\* Lines 429-436: under fileMutex, os.WriteFile replaces the file by the array.
OutWrite(p) ==
    /\ Alive
    /\ tpc[p] = "outWrite"
    /\ fileMutex = "none"
    /\ fileMutex' = p
    /\ file' = combinedJSON[p]
    /\ lastWrite' = combinedJSON[p]
    /\ tpc' = [tpc EXCEPT ![p] = "outLog"]
    /\ UNCHANGED <<renderVars, lateStarts, config, mainVars, connVars, sigQueued, shuttingDown, resultsMux,
                   taskVars, bufVars, stdout, combinedJSON, flushDone, exitCode>>

\* Mutant: the deferred unlock is missing.
FileUnlockMissing(p) == fileMutex

\* The deferred fileMutex.Unlock() of line 431, if the lock was taken.
FileUnlock(p) == IF fileMutex = p THEN "none" ELSE fileMutex

\* Lines 439-451: the closing log lines; the deferred fileMutex.Unlock();
\* outputResults returns.
OutLog(p) ==
    /\ Alive
    /\ tpc[p] = "outLog"
    /\ fileMutex' = FileUnlock(p)
    /\ flushDone' = flushDone + 1
    /\ combinedJSON' = [combinedJSON EXCEPT ![p] = <<>>]
    /\ tpc' = [tpc EXCEPT ![p] = AfterFlush(p)]
    /\ UNCHANGED <<renderVars, histVars, config, mainVars, connVars, sigQueued, shuttingDown,
                   resultsMux, taskVars, bufVars, file, stdout, exitCode>>

(***************************************************************************)
(* setupSignalHandling: the interrupt handler                              *)
(***************************************************************************)

\* An interrupt arrives: signal.Notify puts it in c (capacity 1) if there is
\* room and drops it otherwise.
Interrupt ==
    /\ Alive
    /\ sigQueued = 0
    /\ sigQueued' = 1
    /\ UNCHANGED <<renderVars, histVars, config, tpc, mainVars, connVars, shuttingDown, lockVars,
                   taskVars, bufVars, sinkVars, exitCode>>

\* Line 178: the handler goroutine receives from c, once.
HandlerRecv ==
    /\ Alive
    /\ tpc["handler"] = "idle"
    /\ sigQueued = 1
    /\ sigQueued' = 0
    /\ tpc' = [tpc EXCEPT !["handler"] = "hSet"]
    /\ UNCHANGED <<renderVars, histVars, config, mainVars, connVars, shuttingDown, lockVars, taskVars,
                   bufVars, sinkVars, exitCode>>

\* Lines 181-183: the flag is set.
HandlerSet ==
    /\ Alive
    /\ tpc["handler"] = "hSet"
    /\ shuttingDown' = TRUE
    /\ tpc' = [tpc EXCEPT !["handler"] = "outBegin"]
    /\ UNCHANGED <<renderVars, histVars, config, mainVars, connVars, sigQueued, lockVars, taskVars,
                   bufVars, sinkVars, exitCode>>

\* Line 188: os.Exit(130).
HandlerExit ==
    /\ Alive
    /\ tpc["handler"] = "hExit"
    /\ exitCode' = ExitInterrupt
    /\ UNCHANGED <<renderVars, histVars, config, tpc, mainVars, connVars, sigQueued, shuttingDown,
                   lockVars, taskVars, bufVars, sinkVars>>

Next ==
    \/ MainStart
    \/ ProbePass
    \/ ProbeFail
    \/ Admit
    \/ SemAcquire
    \/ Wait
    \/ Drain
    \/ Summary
    \/ Close
    \/ MainReturn
    \/ Fatal
    \/ \E t \in Targets : SkipCheck(t)
    \/ \E t \in Targets : Entry(t)
    \/ \E t \in Targets : RetryCheck(t)
    \/ \E t \in Targets : CallIssue(t)
    \/ \E t \in Targets : CallFail(t)
    \/ \E t \in Targets : CallEmpty(t)
    \/ \E t \in Targets : CallRows(t)
    \/ \E t \in Targets : RenderFail(t)
    \/ \E t \in Targets : RecLock(t)
    \/ \E t \in Targets : RecAppend(t)
    \/ \E t \in Targets : RecFile(t)
    \/ \E t \in Targets : ErrCheck(t)
    \/ \E t \in Targets : Finish(t)
    \/ \E p \in Threads : OutBegin(p)
    \/ \E p \in Threads : OutWrite(p)
    \/ \E p \in Threads : OutLog(p)
    \/ Interrupt
    \/ HandlerRecv
    \/ HandlerSet
    \/ HandlerExit

Spec == Init /\ [][Next]_vars

(***************************************************************************)
(* A bulk run in which no interrupt arrives, with the scheduling the Go    *)
(* runtime gives: main and every started goroutine keep being run while    *)
(* they can take a step, and every Query Service call returns.             *)
(***************************************************************************)

BulkInit == Init /\ mode = "bulk"

MainStep ==
    \/ MainStart
    \/ ProbePass
    \/ ProbeFail
    \/ Admit
    \/ SemAcquire
    \/ Wait
    \/ Drain
    \/ OutBegin("main")
    \/ OutWrite("main")
    \/ OutLog("main")
    \/ Summary
    \/ Close
    \/ MainReturn

TaskStep(t) ==
    \/ SkipCheck(t)
    \/ Entry(t)
    \/ RetryCheck(t)
    \/ CallIssue(t)
    \/ CallFail(t)
    \/ CallEmpty(t)
    \/ CallRows(t)
    \/ RenderFail(t)
    \/ RecLock(t)
    \/ RecAppend(t)
    \/ RecFile(t)
    \/ ErrCheck(t)
    \/ Finish(t)

BulkNext == MainStep \/ \E t \in Targets : TaskStep(t)

BulkFairSpec ==
    /\ BulkInit
    /\ [][BulkNext]_vars
    /\ WF_vars(MainStep)
    /\ \A t \in Targets : WF_vars(TaskStep(t))


(***************************************************************************)
(* Properties                                                              *)
(***************************************************************************)

\* The concurrency limit in effect: the configured value, 1 when it is below 1.
EffectiveLimit == IF concurrent < 1 THEN 1 ELSE concurrent

\* Tasks that have been started and have not finished: they hold a slot.
Active == {t \in Targets : pc[t] \notin {"idle", "done"}}

\* Tasks with a Query Service call in progress.
InFlight == {t \in Targets : pc[t] = "inflight"}

\* C1: in a bulk run the number of started and unfinished tasks, and hence the
\* number of simultaneous Query Service calls, never exceeds the effective
\* concurrency limit.
C1_ConcurrencyCap ==
    mode = "bulk" =>
        /\ Cardinality(Active) <= EffectiveLimit
        /\ Cardinality(InFlight) <= EffectiveLimit

\* C1 witness: the limit is reached by calls in flight while the admission loop
\* waits for a slot for a further target.
C1_Witness ==
    /\ mode = "bulk"
    /\ tpc["main"] = "sem"
    /\ Cardinality(InFlight) = concurrent
    /\ idx <= totalDomains

\* C2 (as claimed): a run that ends normally or by an interrupt has executed
\* outputResults exactly once.
C2_FlushExactlyOnce ==
    exitCode \in {0, ExitInterrupt} => flushDone = 1

Range(q) == {q[i] : i \in 1..Len(q)}

\* C3 (as claimed): in JSON format with an output file, once the array has been
\* written the file at process exit holds every element of it.
C3_FileHoldsArray ==
    (~Alive /\ jsonOut /\ filename # "" /\ lastWrite # <<>>) =>
        /\ Len(file) >= Len(lastWrite)
        /\ Range(lastWrite) \subseteq Range(file)


\* C4 (as claimed): once the flag is set, in a bulk run no task is started and
\* no first-attempt Query Service call is issued.
C4_NothingBeginsAfterFlag ==
    [][(mode = "bulk" /\ shuttingDown) =>
          \A t \in Targets :
              /\ pc[t] = "idle" => pc'[t] = "idle"
              /\ ~(attempt[t] = 0 /\ calls[t] = 0 /\ calls'[t] = 1)]_vars

\* C4 (amended): every check of the flag made after it is set stops what it
\* guards: the admission check ends the loop, a started task's check ends the
\* task, the entry check of the lookup returns without a call.  So at most one
\* task is started after the flag is set (its admission check came before),
\* and that task never reaches its lookup.
C4_ChecksStopAfterFlag ==
    /\ [](mode = "bulk" =>
            /\ Cardinality(lateStarts) <= 1
            /\ \A t \in lateStarts :
                  /\ pc[t] \in {"skipCheck", "done"}
                  /\ outcome[t] \in {"none", "Skipped"}
                  /\ calls[t] = 0)
    /\ [][(mode = "bulk" /\ shuttingDown) =>
            /\ tpc["main"] = "admit" => tpc'["main"] # "sem"
            /\ \A t \in Targets :
                  /\ pc[t] = "skipCheck" => pc'[t] \in {"skipCheck", "done"}
                  /\ pc[t] = "entry" => pc'[t] \in {"entry", "errCheck"}]_vars

\* C4 witness: the flag is set, the admission loop has ended after at least
\* one target, and the targets not yet admitted have not started.
C4_Witness ==
    /\ mode = "bulk"
    /\ shuttingDown
    /\ tpc["main"] = "wait"
    /\ idx > 1
    /\ idx <= totalDomains
    /\ \A t \in idx..totalDomains : pc[t] = "idle"

\* C5 (as claimed): a bulk run never exits while a Query Service call is in
\* progress.
C5_NoExitDuringCall ==
    (mode = "bulk" /\ ~Alive) => InFlight = {}

\* C6 (as claimed), for the runs that got their connection: once shutdown has
\* been requested, the process exits with status 130 only.
C6_InterruptExitStatus ==
    (~Alive /\ shuttingDown /\ repo # "none" /\ retries < maxRetries) =>
        exitCode = ExitInterrupt

\* C7: a lookup never issues more than retryCount+1 calls; it returns Failure
\* only after exactly retryCount+1 calls; and with no shutdown requested, the
\* only way it returns an error is that Failure (no earlier return while every
\* call fails).
C7_FailureAfterAllAttempts ==
    /\ [](\A t \in Targets : calls[t] <= retryCount + 1)
    /\ [][\A t \in Targets :
            /\ (outcome[t] = "none" /\ outcome'[t] = "Failure")
                  => calls[t] = retryCount + 1
            /\ (outcome[t] = "none" /\ outcome'[t] \in ErrOutcomes
                  /\ ~shuttingDown)
                  => (outcome'[t] = "Failure" /\ calls[t] = retryCount + 1)
            /\ (pc[t] = "retryCheck" /\ ~shuttingDown)
                  => pc'[t] \in {"retryCheck", "call"}]_vars

\* C7 witness: with no interrupt and at least one retry configured, a lookup
\* has returned Failure.
C7_Witness ==
    /\ retryCount >= 1
    /\ ~shuttingDown
    /\ tpc["handler"] = "idle"
    /\ \E t \in Targets : outcome[t] = "Failure"

\* C8: a call that returns zero rows makes the lookup return Empty at once:
\* nothing is appended to a buffer, written to the file or queued as an error
\* in that step, and the target never issues another call and never appears in
\* a buffer or in the error channel.
C8_EmptyReturnsAtOnce ==
    /\ [][\A t \in Targets :
            CallEmpty(t) =>
                /\ outcome'[t] = "Empty"
                /\ pc'[t] \in {"finish", "done"}
                /\ UNCHANGED <<bufVars, file, errorChannel, errCount>>]_vars
    /\ [](\A t \in Targets :
            outcome[t] = "Empty" =>
                /\ pc[t] \in {"finish", "done"}
                /\ calls[t] = 0
                /\ t \notin Range(Buffer)
                /\ t \notin Range(file)
                /\ t \notin Range(errorChannel))

\* C8 witness: a target ended Empty with retries left unused, its task done.
C8_Witness ==
    \E t \in Targets :
        /\ outcome[t] = "Empty"
        /\ pc[t] = "done"
        /\ retryCount >= 1

\* The targets of the run whose lookup returned `out`.
Ended(out) == {t \in Targets : outcome[t] = out}

\* The items that reached the output sink.
Output == IF filename = "" THEN stdout ELSE file

\* C9: in a bulk run with no interrupt, after the error channel is drained the
\* error count is the number of targets that ended in Failure, the buffer holds
\* one item for every Success whose render did not fail, and after the flush
\* the output holds exactly those items (in some order).
C9_CountsMatchOutcomes ==
    (mode = "bulk" /\ tpc["handler"] = "idle"
       /\ tpc["main"] \in {"outBegin", "outWrite", "outLog", "summary", "close",
                           "return"}) =>
        /\ errCount = Cardinality(Ended("Failure"))
        /\ Len(Buffer) + Cardinality({t \in Targets : dropped[t]})
              = Cardinality(Ended("Success"))
        /\ Range(Buffer) = {t \in Ended("Success") : ~dropped[t]}
        /\ tpc["main"] \in {"summary", "close", "return"} =>
              /\ Len(Output) = Len(Buffer)
              /\ Range(Output) = Range(Buffer)
        /\ tpc["main"] \in {"close", "return"} =>
              summary = (IF errCount > 0 THEN "errors" ELSE "success")

\* C9 witness: a run of two targets has ended normally with one Failure and one
\* recorded Success.
C9_Witness ==
    /\ mode = "bulk"
    /\ tpc["handler"] = "idle"
    /\ exitCode = 0
    /\ errCount = 1
    /\ Len(Output) = 1
    /\ Cardinality(Ended("Failure")) = 1
    /\ Cardinality(Ended("Success")) >= 1


\* The outcomes a lookup that was not cut short by shutdown ends in.
FinalOutcomes == {"Success", "Empty", "Failure"}

\* The bulk run has ended normally: every target of the list was run to a final
\* outcome, every task has finished, the flush was performed.
BulkCompleted ==
    /\ exitCode = 0
    /\ flushDone = 1
    /\ idx = totalDomains + 1
    /\ \A t \in 1..totalDomains :
          pc[t] = "done" /\ outcome[t] \in FinalOutcomes

\* C10: a bulk run with no interrupt that has its connection eventually ends
\* normally with every target run to a final outcome, however many of them
\* fail.
C10_BulkRunCompletes ==
    (tpc["main"] = "admit") ~> BulkCompleted

\* C10 witness: a run of more targets than slots has completed although a
\* target failed.
C10_Witness ==
    /\ BulkCompleted
    /\ totalDomains > concurrent
    /\ Ended("Failure") # {}
    /\ Ended("Success") # {}

\* C11: repository.New probes at most maxRetries times and only before it has
\* returned; when every probe fails it has made exactly maxRetries probes, the
\* handle is closed and the run ends with status 1 with no task started and no
\* Query Service call made; a probe that passes ends the acquisition with a
\* live handle and no further probe.
C11_AcquireProbes ==
    /\ [](/\ retries <= maxRetries
          /\ (Alive /\ tpc["main"] = "acquire") => (retries < maxRetries /\ repo = "none")
          /\ retries = maxRetries =>
                /\ repo = "closed"
                /\ exitCode = 1
                /\ tpc["main"] = "acquire"
                /\ idx = 1
                /\ \A t \in Targets :
                      pc[t] = "idle" /\ calls[t] = 0 /\ outcome[t] = "none"
          /\ (repo = "closed" /\ tpc["main"] = "acquire") => retries = maxRetries)
    /\ [][/\ retries' # retries =>
                (tpc["main"] = "acquire" /\ repo = "none" /\ retries' = retries + 1)
          /\ ProbePass =>
                (repo' = "live" /\ retries' = retries /\ tpc'["main"] # "acquire")
          /\ (repo = "none" /\ repo' = "closed") => retries' = maxRetries]_vars

\* C11 witness: every probe failed and the run was aborted.
C11_Witness ==
    /\ retries = maxRetries
    /\ repo = "closed"
    /\ exitCode = 1

\* C12 (as claimed): for the JSONL, CSV and Table formats, a flush that begins
\* after an earlier flush has returned, when the sink already holds exactly the
\* buffer (so nothing was recorded since that flush), writes nothing to
\* standard output or to the file.
C12_SecondFlushWritesNothing ==
    [][\A p \in Threads :
          (/\ OutBegin(p)
           /\ ~jsonOut
           /\ flushDone >= 1
           /\ Buffer # <<>>
           /\ Output = Buffer)
          => (stdout' = stdout /\ file' = file)]_vars

\* The targets whose rendered result has been appended to the buffer: the
\* lookup returned Success with a render that did not fail, or the task is past
\* the append and on its way to the output file.
Recorded ==
    {t \in Targets : (outcome[t] = "Success" /\ ~dropped[t]) \/ pc[t] = "recFile"}

InInputOrder(q) == \A i, j \in 1..Len(q) : i < j => q[i] < q[j]

\* C14: in a bulk run with an effective concurrency limit of 1, a target's task
\* is started only when the task of every earlier target has finished, so the
\* items are in the buffer, and in the output file, in input order.
C14_SerialRunKeepsInputOrder ==
    (mode = "bulk" /\ EffectiveLimit = 1) =>
        /\ \A i, j \in Targets :
              (i < j /\ pc[j] # "idle") => pc[i] = "done"
        /\ InInputOrder(Buffer)
        /\ InInputOrder(file)

\* C14 witness: a serial run of two successful targets has recorded both and
\* appended both to the output file.
C14_Witness ==
    /\ mode = "bulk"
    /\ EffectiveLimit = 1
    /\ jsonlOut
    /\ jsonlResults = <<1, 2>>
    /\ file = <<1, 2>>

C16_LowLimitCoercedToOne ==
    /\ [][/\ concurrent >= 1 => concurrent' = concurrent
          /\ concurrent < 1 => concurrent' \in {concurrent, 1}
          /\ (tpc["main"] = "start" /\ concurrent >= 1) => ~warned']_vars
    /\ [](/\ tpc["main"] # "start" => concurrent >= 1
          /\ warned => (concurrent = 1 /\ Cardinality(Active) <= 1))
    /\ (warned /\ tpc["main"] = "admit") ~> (BulkCompleted /\ concurrent = 1)

\* C16 witness: a run whose configured limit was below 1 has completed with
\* every target of a list of MaxTargets run to a final outcome.
C16_Witness ==
    /\ warned
    /\ BulkCompleted
    /\ totalDomains = MaxTargets

\* No item has been recorded in any buffer.
NothingRecorded ==
    /\ jsonResults = <<>>
    /\ jsonlResults = <<>>
    /\ csvResults = <<>>
    /\ tableResults = <<>>

\* C17: while nothing has been recorded, no step of outputResults, run by main
\* or by the handler, changes standard output, the output file or a buffer.
C17_EmptyFlushWritesNothing ==
    [][\A p \in Threads :
          (NothingRecorded /\ (OutBegin(p) \/ OutWrite(p) \/ OutLog(p)))
          => UNCHANGED <<stdout, file, bufVars>>]_vars

\* C17 witness: a run whose lookups recorded nothing has flushed and ended
\* with nothing in the sink.
C17_Witness ==
    /\ NothingRecorded
    /\ flushDone = 1
    /\ exitCode = 0
    /\ \E t \in Targets : outcome[t] \in {"Empty", "Failure"}
    /\ stdout = <<>>
    /\ file = <<>>

(***************************************************************************)
(* result.Certificates.JSON, on its own: the result set is drawn from the  *)
(* sets the repository can return (no entry annotated), JSON() is applied  *)
(* once.  A certificate is its ID and its NewlyRegisteredDomain field.     *)
(***************************************************************************)

\* Bounds of the result sets.
MaxCerts == 4
MaxCertID == 3

\* The sets GetCertLogs can return: NewlyRegisteredDomain is left empty.
ResultSets ==
    UNION {[1..n -> [id : 1..MaxCertID, nrd : {""}]] : n \in 0..MaxCerts}

\* Mutant: only a set of one entry is annotated.
AnnotatedOnlyOne(r) == Len(r) = 1

\* The test of line 110.
Annotated(r) == Len(r) > 0 /\ Len(r) <= 2

\* Line 111: the first entry of the caller's slice is annotated in place.
Annotate(r) ==
    IF Annotated(r) THEN [r EXCEPT ![1].nrd = "likely"] ELSE r

\* The JSON object of a certificate: the key nrd is left out when the field is
\* empty (omitempty).
MarshalCert(c) ==
    IF c.nrd = "" THEN [id |-> c.id] ELSE [id |-> c.id, nrd |-> c.nrd]

\* json.MarshalIndent of line 114: one object per entry, in order.
MarshalIndent(r) == [i \in 1..Len(r) |-> MarshalCert(r[i])]

\* Certificates.JSON (lines 108-120).
RenderJSON ==
    /\ rendered = <<>>
    /\ certs' = Annotate(certs)
    /\ rendered' = <<MarshalIndent(Annotate(certs))>>
    /\ UNCHANGED <<config, tpc, mainVars, connVars, sigQueued, shuttingDown,
                   lockVars, taskVars, bufVars, sinkVars, exitCode, histVars>>

RenderInit ==
    /\ mode = "single"
    /\ format = "json"
    /\ filename = ""
    /\ concurrent = 1
    /\ retryCount = 0
    /\ totalDomains = 1
    /\ NothingRun
    /\ certs \in ResultSets
    /\ rendered = <<>>

RenderNext == RenderJSON

RenderSpec == RenderInit /\ [][RenderNext]_vars

\* The object carries the annotation.
Likely(obj) == "nrd" \in DOMAIN obj /\ obj.nrd = "likely"

C19_FlushReadsUnderLock ==
    [][\A p \in Threads : OutBegin(p) => resultsMux = 0]_vars

\* C20 (as claimed): a retry (attempt > 0) whose inter-attempt sleep ends with
\* the flag set issues no Query Service call.
C20_NoRetryCallAfterFlag ==
    [][\A t \in Targets :
          (shuttingDown /\ attempt[t] > 0 /\ pc[t] = "call")
          => pc'[t] # "inflight"]_vars

\* C21: a render that fails appends nothing to a buffer, writes nothing to the
\* file and queues no error; the lookup returns as a success, the item never
\* appears in a buffer, in the file or in the error channel, it is not counted
\* as an error, and the bulk run goes on to run every target and end normally.
C21_RenderErrorDropsItem ==
    /\ [][\A t \in Targets :
            RenderFail(t) =>
                /\ UNCHANGED <<bufVars, file, stdout, errorChannel, errCount>>
                /\ outcome'[t] = "Success"
                /\ pc'[t] = "finish"]_vars
    /\ [](/\ \A t \in Targets :
                dropped[t] =>
                    /\ outcome[t] = "Success"
                    /\ t \notin Range(Buffer)
                    /\ t \notin Range(file)
                    /\ t \notin Range(stdout)
                    /\ t \notin Range(errorChannel)
          /\ errCount + Len(errorChannel) <= Cardinality(Ended("Failure")))
    /\ (\E t \in Targets : dropped[t]) ~> BulkCompleted

\* C21 witness: the render of the first target failed, the second target was
\* still looked up and recorded, and the run ended with only the second item
\* in the output and no error counted.
C21_Witness ==
    /\ BulkCompleted
    /\ totalDomains = 2
    /\ dropped[1]
    /\ outcome[2] = "Success"
    /\ ~dropped[2]
    /\ Output = <<2>>
    /\ errCount = 0

\* The backoff delay in effect after k failed probes.
BackoffDelay(k) == min(initialDelay * 2^(k - 1), maxDelay)

\* The sleep s is delay plus jitter for the delay d: d <= s < d + d/2.
SleepInRange(s, d) == d <= s /\ 2 * s < 3 * d

\* C22 (as claimed): every failed probe, the k-th for k = 1, 2, ..., is followed
\* by a sleep in [d, d + d/2) for d = min(initialDelay * 2^(k-1), maxDelay).
C22_EveryFailedProbeSleeps ==
    [][ProbeFail => SleepInRange(slept', BackoffDelay(retries'))]_vars

\* C22 (amended): the k-th failed probe is followed by such a sleep when
\* k < maxRetries, after which the delay is doubled up to maxDelay; the last
\* failed probe (k = maxRetries) is followed by no sleep: the handle is closed
\* and New returns.  The delay never exceeds maxDelay.
C22_SleepBetweenProbes ==
    /\ [][ProbeFail =>
            IF retries' < maxRetries
            THEN /\ SleepInRange(slept', BackoffDelay(retries'))
                 /\ delay = BackoffDelay(retries')
                 /\ delay' = min(2 * delay, maxDelay)
                 /\ repo' = repo
            ELSE /\ slept' = 0
                 /\ delay' = delay
                 /\ repo' = "closed"]_vars
    /\ [](delay <= maxDelay /\ delay >= initialDelay)

\* C22 witness: after the second failed probe New has slept the doubled delay
\* plus a jitter and doubled the delay again.
C22_Witness ==
    /\ retries = 2
    /\ slept = 2 * initialDelay + 1
    /\ delay = 4 * initialDelay
    /\ tpc["main"] = "acquire"

\* C23 (as claimed): when the process has ended, a handle that was acquired has
\* been closed.
C23_HandleClosedAtExit ==
    ~Alive => repo # "live"

\* C24: the flag is false when the run begins; it changes only from false to
\* true and only in the handler's step of lines 181-183; and once it is true
\* every isShuttingDown() call reads true: the admission check ends the loop,
\* a task's checks end the task or the lookup, no error is reported or counted
\* and no summary is printed.
C24_FlagIsOneShot ==
    /\ (tpc["main"] = "start" => ~shuttingDown)
    /\ [][/\ shuttingDown => shuttingDown'
          /\ shuttingDown' # shuttingDown => (HandlerSet /\ shuttingDown')
          /\ shuttingDown =>
                /\ isShuttingDown
                /\ Admit => tpc'["main"] = "wait"
                /\ Drain => errCount' = errCount
                /\ Summary => summary' = "none"
                /\ \A t \in Targets :
                      /\ SkipCheck(t) => outcome'[t] = "Skipped"
                      /\ Entry(t) => outcome'[t] = "Cancelled"
                      /\ RetryCheck(t) => outcome'[t] = "Cancelled"
                      /\ ErrCheck(t) => errorChannel' = errorChannel]_vars

\* C24 witness: after the flag was set the lookup of a started task found it
\* set and ended Cancelled, and main found it set and printed no summary.
C24_Witness ==
    /\ shuttingDown
    /\ mode = "bulk"
    /\ retryCount >= 1
    /\ outcome[1] = "Cancelled"
    /\ lateStarts = {}
    /\ tpc["main"] = "close"
    /\ summary = "none"

\* Task t waits for a lock that is held.
TaskBlocked(t) ==
    \/ pc[t] = "recLock" /\ resultsMux # 0
    \/ pc[t] = "recFile" /\ fileMutex # "none"

\* Thread p (main or the handler) waits for fileMutex, for a slot of the
\* semaphore or for the WaitGroup.
ThreadBlocked(p) ==
    \/ tpc[p] = "outWrite" /\ fileMutex # "none"
    \/ p = "main" /\ tpc[p] = "sem" /\ ~SemaphoreFree
    \/ p = "main" /\ tpc[p] = "wait" /\ ~WaitDone

\* C25: while the process runs, a held lock is held by a thread that is not
\* blocked and is about to release it; every started task that is not waiting
\* for such a lock can take a step; and main, when it waits for a slot or for
\* the WaitGroup, waits for a started task (in single-domain mode main runs
\* the lookup itself).  So no thread waits for a thread
\* that is itself blocked for ever.
C25_NoDeadlock ==
    Alive =>
        /\ resultsMux # 0 => pc[resultsMux] = "recAppend"
        /\ fileMutex # "none" => tpc[fileMutex] = "outLog"
        /\ \A t \in Active : ~TaskBlocked(t) => ENABLED TaskStep(t)
        /\ \A p \in Threads :
              (tpc[p] \in {"outBegin", "outWrite", "outLog"} /\ ~ThreadBlocked(p))
                 => ENABLED (OutBegin(p) \/ OutWrite(p) \/ OutLog(p))
        /\ (ThreadBlocked("main") /\ tpc["main"] \in {"sem", "wait"}) =>
              /\ Active # {}
              /\ \E t \in Active : ~TaskBlocked(t) \/ pc[t] = "recFile"
        /\ tpc["main"] = "lookup" => 1 \in Active
        /\ (~ThreadBlocked("main") /\ tpc["main"] # "lookup")
              => ENABLED (MainStep \/ Fatal)

\* C25 witness: a recording task waits for fileMutex, held by the handler in
\* its flush, while main waits for the task.
C25_Witness ==
    /\ Alive
    /\ fileMutex = "handler"
    /\ \E t \in Targets : pc[t] = "recFile"
    /\ tpc["main"] = "wait"

\* C26: in a bulk run the handle is closed only when no task is started and
\* unfinished: Close runs with the WaitGroup at zero and every admitted task
\* done, no call is issued or in flight on a closed handle, and no task starts
\* after the handle was closed.
C26_CloseAfterAllTasks ==
    /\ [](mode = "bulk" /\ repo = "closed" => (Active = {} /\ InFlight = {} /\ wg = 0))
    /\ [][mode = "bulk" =>
            /\ Close => (wg = 0 /\ Active = {} /\ chanClosed)
            /\ repo = "closed" => \A t \in Targets : pc'[t] = pc[t]]_vars

\* C26 witness: a bulk run of two targets has closed its handle after both
\* lookups made their calls.
C26_Witness ==
    /\ mode = "bulk"
    /\ repo = "closed"
    /\ totalDomains = 2
    /\ \A t \in Targets : pc[t] = "done" /\ outcome[t] \in FinalOutcomes

\* The position of item x in the sequence q.
Pos(q, x) == CHOOSE k \in 1..Len(q) : q[k] = x

\* C27 (as claimed): in the Table, CSV and JSONL formats with an output file,
\* the items of the file are items of the buffer, each once, in the order they
\* have in the buffer.
C27_FileOrderIsBufferOrder ==
    (~jsonOut /\ filename # "") =>
        /\ Range(file) \subseteq Range(Buffer)
        /\ Cardinality(Range(file)) = Len(file)
        /\ \A i, j \in 1..Len(file) :
              i < j => Pos(Buffer, file[i]) < Pos(Buffer, file[j])

\* C27 (amended): the items of the file are items of the buffer, each exactly
\* once, and the only buffer items not yet in the file are those of tasks
\* between their append to the buffer and their write to the file; the order
\* of the file need not be the order of the buffer.
C27_FileHoldsBufferItems ==
    (~jsonOut /\ filename # "") =>
        /\ Range(file) \subseteq Range(Buffer)
        /\ Cardinality(Range(file)) = Len(file)
        /\ Cardinality(Range(Buffer)) = Len(Buffer)
        /\ Range(Buffer) \ Range(file) = {t \in Targets : pc[t] = "recFile"}

\* C27 witness: two tasks appended to the buffer in one order and to the file
\* in the other.
C27_Witness ==
    /\ jsonlOut
    /\ filename # ""
    /\ jsonlResults = <<1, 2>>
    /\ file = <<2, 1>>

\* The targets whose error has been sent: still queued, or already received.
\* Errors are received in the drain only, after the channel is closed.
Queued == Range(errorChannel)

\* C28: every target is in the error channel at most once, so the queue never
\* holds more than len(domains) errors (the capacity of the channel) and a
\* send finds room; a send happens only while the channel is open, and the
\* channel is closed only when every admitted task has finished.
C28_ErrorChannelBounded ==
    /\ [](/\ Cardinality(Queued) = Len(errorChannel)
          /\ Len(errorChannel) <= totalDomains
          /\ Queued \subseteq {t \in Targets : pc[t] \in {"finish", "done"}}
          /\ chanClosed => (wg = 0 /\ Active = {}))
    /\ [][\A t \in Targets :
            ErrCheck(t) =>
                /\ ~chanClosed
                /\ Len(errorChannel) < totalDomains
                /\ t \notin Queued]_vars

\* C28 witness: every target of the list failed and the channel was closed
\* holding as many errors as it has room for.
C28_Witness ==
    /\ mode = "bulk"
    /\ totalDomains = MaxTargets
    /\ chanClosed
    /\ Len(errorChannel) = totalDomains

====
